---- MODULE Spec2Model ----
(***************************************************************************)
(* A model of mobx-mantle's lifecycle binding: createView's React          *)
(* component (src/unnamed/part_000) driving View hooks and the Behavior    *)
(* entries of ./behavior (src/unnamed/part_001, both variants).            *)
(*                                                                         *)
(* Instances are numbered: 0 is the View, i >= 1 is the Behavior declared  *)
(* by the i-th field initializer of the View class.  Every call the        *)
(* library makes into user code is recorded in `log`, in call order.       *)
(***************************************************************************)
EXTENDS Integers, Sequences, FiniteSets, TLC

\* Most Behaviors a View class declares in its field initializers.
MaxBehaviors == 2

\* Most direct calls a caller makes on one Behavior entry (SpecEntry).
MaxCalls == 4

\* Most configure() calls of one run (SpecConfig).
MaxConfigures == 2

\* Most prototype levels between an instance and the base class, and most
\* members one of these levels defines (SpecClassify).
MaxLevels == 2
MaxMembers == 1

\* Most component instances one run mounts (SpecMulti).
MaxViews == 3

VARIABLES
    guarded,       \* TRUE: ./behavior is part_001:1-290 (try/catch, createBehavior);
                   \* FALSE: ./behavior is part_001:292-368 (createBehaviorInstance)
    viewClass,     \* the user's View subclass: which hooks it defines, what they return
    fields,        \* the Behaviors its field initializers declare, in source order
    fault,         \* the one call site of user code that throws, or NoFault
    template,      \* TRUE iff a template function was passed to createView
    inputs,        \* the props payload of each render pass the parent makes
    globalConfig,  \* the module-level configuration object
    built,         \* TRUE once createView(ViewClass, ...) has been called
    viewOption,    \* the autoObservable option passed to createView, if any
    autoObservable,\* the mode createView resolved when the component was built
    host,          \* React's view of the component
    layoutFx,      \* state of the useLayoutEffect effect: [status, cleanup]
    mountFx,       \* state of the useEffect effect: [status, cleanup]
    _behaviors,    \* View._behaviors: the entries, in registration order
    vmMode,        \* how the View instance was annotated
    props,         \* content of the props box, <<>> while not installed
    forwardRef,    \* the View's forwardRef slot, 0 while not set
    renders,       \* number of render passes so far
    nextId,        \* source of fresh closure identities
    calls,         \* direct calls made so far (SpecEntry)
    escaped,       \* number of exceptions that left a handler of the library
    log,           \* every call into user code and every library step, in order
    reports,       \* what reportError received, in order
    subject,       \* the instance handed to the classifier: its own
                   \* properties and its prototype chain
    classified,    \* which classifier has run on it: "none", "view", "behavior"
    annotations,   \* the annotation map the classifier built
    views,         \* the instances of one component mounted so far (SpecMulti):
                   \* [vm, _propsBox, _behaviors, renders, live], objects by identity
    boxes          \* content of every props box, by identity

vars == <<guarded, viewClass, fields, fault, template, inputs, globalConfig,
          built, viewOption, autoObservable, host,
          layoutFx, mountFx, _behaviors, vmMode, props, forwardRef, renders,
          nextId, calls, escaped, log, reports,
          subject, classified, annotations, views, boxes>>

-----------------------------------------------------------------------------
\* The user's classes

\* What a layout-mount or mount hook does when called: the class does not
\* define it, it returns nothing, or it returns a cleanup closure.
HookKinds == {"absent", "void", "closure"}

ViewClasses ==
    [onCreate: BOOLEAN, onLayoutMount: HookKinds, onMount: HookKinds,
     onUnmount: BOOLEAN, render: BOOLEAN]

\* `mount` is the alias the older mountBehavior also accepts.
BehaviorClasses ==
    [onCreate: BOOLEAN, onLayoutMount: HookKinds, onMount: HookKinds,
     mount: HookKinds, onUnmount: BOOLEAN]

\* The `observable` / `autoObservable` option of one attachment.
Options == {"unset", "true", "false"}

Phases == {"onLayoutMount", "onMount", "onUnmount"}
Closures == {"layoutCleanup", "cleanup"}

NoFault == [who |-> -1, what |-> "none"]

\* 'name' in inst && typeof inst[name] === 'function'
Defines(cls, name) ==
    CASE name = "onCreate"      -> cls.onCreate
      [] name = "onUnmount"     -> cls.onUnmount
      [] name = "onLayoutMount" -> cls.onLayoutMount # "absent"
      [] name = "onMount"       -> cls.onMount # "absent"
      [] name = "mount"         -> "mount" \in DOMAIN cls /\ cls.mount # "absent"
      [] OTHER                  -> FALSE

Returns(cls, name) ==
    CASE name = "onLayoutMount" -> cls.onLayoutMount = "closure"
      [] name = "onMount"       -> cls.onMount = "closure"
      [] name = "mount"         -> "mount" \in DOMAIN cls /\ cls.mount = "closure"
      [] OTHER                  -> FALSE

ClassOf(who) == IF who = 0 THEN viewClass ELSE fields[who].cls

\* The instance an entry of the list wraps (entry.instance).
Inst(c, k) == c.beh[k].instance

\* The class name a Behavior's constructor carries (inst.constructor.name).
NameOf(who) == who

-----------------------------------------------------------------------------
\* Running library code: a context threads the effects of a handler.

Ev(who, what, id) == [who |-> who, what |-> what, id |-> id]

Ctx(entries) ==
    [log |-> log, reports |-> reports, beh |-> entries, next |-> nextId,
     thrown |-> FALSE, ret |-> 0,
     mode |-> vmMode, props |-> props, forwardRef |-> forwardRef]

Note(c, who, what) == [c EXCEPT !.log = Append(@, Ev(who, what, 0))]

\* inst.<name>(): the call is logged with the closure it returns (0: none);
\* at the faulty site it throws instead of returning.
CallHook(c, who, name) ==
    IF fault = [who |-> who, what |-> name]
    THEN [c EXCEPT !.log = Append(@, Ev(who, name, 0)), !.thrown = TRUE, !.ret = 0]
    ELSE IF Returns(ClassOf(who), name)
    THEN [c EXCEPT !.log = Append(@, Ev(who, name, c.next)),
                   !.ret = c.next, !.next = c.next + 1]
    ELSE [c EXCEPT !.log = Append(@, Ev(who, name, 0)), !.ret = 0]

\* inst.onCreate(...args): the call is logged with the arguments it gets.
CallCreate(c, who, args) ==
    [c EXCEPT !.log = Append(@, [who |-> who, what |-> "onCreate", id |-> 0,
                                 args |-> args])]

\* The closure called inside try/catch, its exception handed to the
\* reporter.
CallClosureGuarded(c, who, name, id) ==
    IF id = 0 THEN c
    ELSE IF fault = [who |-> who, what |-> name]
    THEN [c EXCEPT !.log = Append(@, Ev(who, name, id)),
                   !.reports = Append(@, [phase |-> name, name |-> who,
                                          isBehavior |-> who # 0])]
    ELSE [c EXCEPT !.log = Append(@, Ev(who, name, id))]

\* closure?.(): nothing when there is none; a faulty closure throws.
CallClosure(c, who, name, id) ==
    IF id = 0 THEN c
    ELSE [c EXCEPT !.log = Append(@, Ev(who, name, id)),
                   !.thrown = (fault = [who |-> who, what |-> name])]

reportError(c, phase, name, isBehavior) ==
    [c EXCEPT !.thrown = FALSE,
              !.reports = Append(@, [phase |-> phase, name |-> name,
                                     isBehavior |-> isBehavior])]

-----------------------------------------------------------------------------
\* ./behavior as part_001:1-290 (hooks wrapped in try/catch)

Entry(i, mode) ==
    [instance |-> i, mode |-> mode, cleanup |-> 0, layoutCleanup |-> 0]

layoutMountBehavior(c, k) ==
    IF ~Defines(ClassOf(Inst(c, k)), "onLayoutMount") THEN c
    ELSE LET r == CallHook(c, Inst(c, k), "onLayoutMount")
         IN  IF r.thrown
             THEN reportError(r, "onLayoutMount", NameOf(Inst(c, k)), TRUE)
             ELSE [r EXCEPT !.beh[k].layoutCleanup = r.ret]

mountBehavior(c, k) ==
    IF ~Defines(ClassOf(Inst(c, k)), "onMount") THEN c
    ELSE LET r == CallHook(c, Inst(c, k), "onMount")
         IN  IF r.thrown
             THEN reportError(r, "onMount", NameOf(Inst(c, k)), TRUE)
             ELSE [r EXCEPT !.beh[k].cleanup = r.ret]

\* unmountBehavior with the two cleanups called in the opposite order.
unmountBehaviorMountFirst(c, k) ==
    LET c1 == CallClosure(c, Inst(c, k), "cleanup", c.beh[k].cleanup)
        c2 == IF c1.thrown THEN c1
              ELSE CallClosure(c1, Inst(c, k), "layoutCleanup", c1.beh[k].layoutCleanup)
    IN  IF c2.thrown \/ ~Defines(ClassOf(Inst(c, k)), "onUnmount") THEN c2
        ELSE LET r == CallHook(c2, Inst(c, k), "onUnmount")
             IN  IF r.thrown
                 THEN reportError(r, "onUnmount", NameOf(Inst(c, k)), TRUE)
                 ELSE r

unmountBehavior(c, k) ==
    LET c1 == CallClosure(c, Inst(c, k), "layoutCleanup", c.beh[k].layoutCleanup)
        c2 == IF c1.thrown THEN c1
              ELSE CallClosure(c1, Inst(c, k), "cleanup", c1.beh[k].cleanup)
    IN  IF c2.thrown \/ ~Defines(ClassOf(Inst(c, k)), "onUnmount") THEN c2
        ELSE LET r == CallHook(c2, Inst(c, k), "onUnmount")
             IN  IF r.thrown
                 THEN reportError(r, "onUnmount", NameOf(Inst(c, k)), TRUE)
                 ELSE r

\* The effective mode of one createBehavior factory:
\* options?.autoObservable ?? globalConfig.autoObservable
BehaviorAuto(opt) ==
    IF opt = "unset" THEN globalConfig.autoObservable ELSE opt = "true"

\* The factory calling onCreate with no arguments.
createBehaviorDroppingArgs(c, i) ==
    LET c1 == Note(c, i, "construct")
        c2 == IF Defines(ClassOf(i), "onCreate")
              THEN CallCreate(c1, i, <<>>) ELSE c1
        c3 == Note(c2, i, "annotate")
    IN  [c3 EXCEPT !.ret = IF BehaviorAuto(fields[i].opt)
                           THEN "auto" ELSE "explicit"]

\* new BehaviorClass(...args): super(...args), then onCreate(...args), then
\* the annotations.
createBehavior(c, i) ==
    LET c1 == Note(c, i, "construct")
        c2 == IF Defines(ClassOf(i), "onCreate")
              THEN CallCreate(c1, i, fields[i].args) ELSE c1
        c3 == Note(c2, i, "annotate")
    IN  [c3 EXCEPT !.ret = IF BehaviorAuto(fields[i].opt)
                           THEN "auto" ELSE "explicit"]

-----------------------------------------------------------------------------
\* ./behavior as part_001:292-368 (the module part_000 imports by name)

layoutMountBehaviorLegacy(c, k) ==
    IF ~Defines(ClassOf(Inst(c, k)), "onLayoutMount") THEN c
    ELSE LET r == CallHook(c, Inst(c, k), "onLayoutMount")
         IN  IF r.thrown THEN r
             ELSE [r EXCEPT !.beh[k].layoutCleanup = r.ret]

mountBehaviorLegacy(c, k) ==
    IF Defines(ClassOf(Inst(c, k)), "onMount")
    THEN LET r == CallHook(c, Inst(c, k), "onMount")
         IN  IF r.thrown THEN r ELSE [r EXCEPT !.beh[k].cleanup = r.ret]
    ELSE IF Defines(ClassOf(Inst(c, k)), "mount")
    THEN LET r == CallHook(c, Inst(c, k), "mount")
         IN  IF r.thrown THEN r ELSE [r EXCEPT !.beh[k].cleanup = r.ret]
    ELSE c

unmountBehaviorLegacy(c, k) ==
    LET c1 == CallClosure(c, Inst(c, k), "layoutCleanup", c.beh[k].layoutCleanup)
        c2 == IF c1.thrown THEN c1
              ELSE CallClosure(c1, Inst(c, k), "cleanup", c1.beh[k].cleanup)
    IN  IF c2.thrown \/ ~Defines(ClassOf(Inst(c, k)), "onUnmount") THEN c2
        ELSE CallHook(c2, Inst(c, k), "onUnmount")

\* createBehaviorInstance with onCreate called before makeAutoObservable.
createBehaviorInstanceHookFirst(c, i) ==
    LET c1 == Note(c, i, "construct")
        c2 == IF Defines(ClassOf(i), "onCreate")
              THEN CallCreate(c1, i, <<>>) ELSE c1
        c3 == IF fields[i].opt # "false" THEN Note(c2, i, "annotate") ELSE c2
    IN  [c3 EXCEPT !.ret = IF fields[i].opt # "false" THEN "auto" ELSE "none"]

\* new Thing(), makeAutoObservable unless observable === false, then onCreate.
createBehaviorInstance(c, i) ==
    LET c1 == Note(c, i, "construct")
        c2 == IF fields[i].opt # "false" THEN Note(c1, i, "annotate") ELSE c1
        c3 == IF Defines(ClassOf(i), "onCreate")
              THEN CallCreate(c2, i, <<>>) ELSE c2
    IN  [c3 EXCEPT !.ret = IF fields[i].opt # "false" THEN "auto" ELSE "none"]

-----------------------------------------------------------------------------
\* class View (part_000:32-90)

\* The binding of the names part_000 imports from './behavior'.
LayoutMountEntry(c, i) ==
    IF guarded THEN layoutMountBehavior(c, i) ELSE layoutMountBehaviorLegacy(c, i)

MountEntry(c, i) ==
    IF guarded THEN mountBehavior(c, i) ELSE mountBehaviorLegacy(c, i)

UnmountEntry(c, i) ==
    IF guarded THEN unmountBehavior(c, i) ELSE unmountBehaviorLegacy(c, i)

CreateEntry(c, i) ==
    IF guarded THEN createBehavior(c, i) ELSE createBehaviorInstance(c, i)

\* View.use: create the instance, push its entry, hand the instance back.
use(c, i) ==
    LET r == CreateEntry(c, i)
    IN  IF r.thrown THEN r
        ELSE Note([r EXCEPT !.beh = Append(@, Entry(i, r.ret)), !.ret = 0],
                  i, "return")

\* A loop that walks the list from its end.
VisitOrderReversed(n) == [k \in 1..n |-> n + 1 - k]

\* The order in which a for...of over this._behaviors visits n entries.
VisitOrder(n) == [k \in 1..n |-> k]

RECURSIVE LayoutMountLoop(_, _, _)
LayoutMountLoop(c, order, k) ==
    IF k > Len(order) \/ c.thrown THEN c
    ELSE LayoutMountLoop(LayoutMountEntry(c, order[k]), order, k + 1)

RECURSIVE MountLoop(_, _, _)
MountLoop(c, order, k) ==
    IF k > Len(order) \/ c.thrown THEN c
    ELSE MountLoop(MountEntry(c, order[k]), order, k + 1)

RECURSIVE UnmountLoop(_, _, _)
UnmountLoop(c, order, k) ==
    IF k > Len(order) \/ c.thrown THEN c
    ELSE UnmountLoop(UnmountEntry(c, order[k]), order, k + 1)

_layoutMountBehaviors(c) == LayoutMountLoop(c, VisitOrder(Len(c.beh)), 1)

_mountBehaviors(c) == MountLoop(c, VisitOrder(Len(c.beh)), 1)

_unmountBehaviors(c) == UnmountLoop(c, VisitOrder(Len(c.beh)), 1)

\* The field initializers of the View subclass, in source order.
RECURSIVE FieldInitializers(_, _)
FieldInitializers(c, i) ==
    IF i > Len(fields) \/ c.thrown THEN c
    ELSE FieldInitializers(use(c, i), i + 1)

-----------------------------------------------------------------------------
\* createView (part_000:187-249): the component and its effects

\* The arguments of the render pass under way: Component(props, ref).
Pass == inputs[renders + 1]

\* The props setter folding the new payload into the old one.
SetPropsMerging(box, value) == value @@ box

\* set props(value) { this._propsBox.set(value) }: the box holds the value.
SetProps(box, value) == value

\* The initializer with the props box made before the class is
\* instantiated.
useStateInitializerBoxFirst(c) ==
    LET Box(c0) ==
            [c0 EXCEPT !.log = Append(@, Ev(0, "propsBox", renders + 1)),
                       !.props = Pass.props,
                       !.forwardRef = Pass.ref]
        Annotate(c2) ==
            Note([c2 EXCEPT !.mode = IF autoObservable THEN "auto"
                                     ELSE "explicit"],
                 0, "annotate")
        Create(c3) ==
            IF Defines(viewClass, "onCreate")
            THEN CallCreate(c3, 0, <<>>) ELSE c3
        Return(c4) == IF c4.thrown THEN c4 ELSE Note(c4, 0, "return")
        Construct(c1) ==
            IF c1.thrown THEN c1 ELSE Return(Create(Annotate(c1)))
    IN  Construct(FieldInitializers(Note(Box([c EXCEPT !.beh = <<>>]),
                                         0, "construct"), 1))

\* The initializer given to useState: new ViewClass() with a fresh
\* _behaviors list and the field initializers, the props box holding the
\* payload of this pass, the annotations, then onCreate.
useStateInitializer(c) ==
    LET Box(c1) ==
            [c1 EXCEPT !.log = Append(@, Ev(0, "propsBox", renders + 1)),
                       !.props = Pass.props,
                       !.forwardRef = Pass.ref]
        Annotate(c2) ==
            Note([c2 EXCEPT !.mode = IF autoObservable THEN "auto"
                                     ELSE "explicit"],
                 0, "annotate")
        Create(c3) ==
            IF Defines(viewClass, "onCreate")
            THEN CallCreate(c3, 0, <<>>) ELSE c3
        Return(c4) == IF c4.thrown THEN c4 ELSE Note(c4, 0, "return")
        Construct(c1) ==
            IF c1.thrown THEN c1 ELSE Return(Create(Annotate(Box(c1))))
    IN  Construct(FieldInitializers(Note([c EXCEPT !.beh = <<>>],
                                         0, "construct"), 1))

\* useState running its initializer on every render pass.
useStateEveryPass(c) == useStateInitializer(c)

\* const [vm] = useState(initializer): the initializer runs on the first
\* render pass only, later passes get the instance kept by React.
useState(c) == IF renders = 0 THEN useStateInitializer(c) ELSE c

\* The component body down to the effects: the instance, then
\* vm.props = props; vm.forwardRef = ref.
Component(c) ==
    LET Write(c1) ==
            IF c1.thrown THEN c1
            ELSE [c1 EXCEPT !.props = SetProps(c1.props, Pass.props),
                            !.forwardRef = Pass.ref]
    IN  Write(useState(c))

\* The render check looking at the class only.
MissingRenderIgnoringTemplate == ~viewClass.render

\* if (!template && !vm.render) throw new Error(...)
MissingRender == ~template /\ ~viewClass.render

\* The two effects with each other's hook.
EffectHookSwapped(effect) == IF effect = "layout" THEN "onMount" ELSE "onLayoutMount"

\* The View hook each effect calls: vm.onLayoutMount?.() in useLayoutEffect,
\* vm.onMount?.() in useEffect.
EffectHook(effect) == IF effect = "layout" THEN "onLayoutMount" ELSE "onMount"

\* The body of useLayoutEffect's callback; ret is the View's own cleanup.
useLayoutEffectSetup(c) ==
    LET c1 == _layoutMountBehaviors(c)
    IN  IF c1.thrown THEN c1
        ELSE IF Defines(viewClass, EffectHook("layout"))
        THEN CallHook(c1, 0, EffectHook("layout"))
        ELSE [c1 EXCEPT !.ret = 0]

\* The closure useLayoutEffect's callback returns.
useLayoutEffectCleanup(c, cleanup) ==
    CallClosure(c, 0, "layoutCleanup", cleanup)

\* useEffect's callback calling the View's onMount before _mountBehaviors.
useEffectSetupViewFirst(c) ==
    LET c1 == IF Defines(viewClass, "onMount")
              THEN CallHook(c, 0, "onMount") ELSE [c EXCEPT !.ret = 0]
        c2 == _mountBehaviors(c1)
    IN  IF c1.thrown THEN c1 ELSE [c2 EXCEPT !.ret = c1.ret]

\* The body of useEffect's callback.
useEffectSetup(c) ==
    LET c1 == _mountBehaviors(c)
    IN  IF c1.thrown THEN c1
        ELSE IF Defines(viewClass, EffectHook("passive"))
        THEN CallHook(c1, 0, EffectHook("passive"))
        ELSE [c1 EXCEPT !.ret = 0]

\* useEffect's cleanup tearing the Behaviors down before the View.
useEffectCleanupBehaviorsFirst(c, cleanup) ==
    LET c0 == _unmountBehaviors(c)
        c1 == IF c0.thrown THEN c0 ELSE CallClosure(c0, 0, "cleanup", cleanup)
    IN  IF c1.thrown \/ ~Defines(viewClass, "onUnmount") THEN c1
        ELSE CallHook(c1, 0, "onUnmount")

\* The closure useEffect's callback returns.
useEffectCleanup(c, cleanup) ==
    LET c1 == CallClosure(c, 0, "cleanup", cleanup)
        c2 == IF c1.thrown \/ ~Defines(viewClass, "onUnmount") THEN c1
              ELSE CallHook(c1, 0, "onUnmount")
    IN  IF c2.thrown THEN c2 ELSE _unmountBehaviors(c2)

-----------------------------------------------------------------------------
\* The classifiers: makeViewObservable (part_000:134-183) and
\* makeBehaviorObservable (part_001:63-102)
\*
\* An instance is [own, chain, loose, root]: own maps its own enumerable
\* property names to their values; chain lists the prototype levels of the
\* user's classes, closest first, each mapping the names it defines to
\* "getter", "method" or "data"; loose says the members of the immediate
\* prototype are enumerable (assigned, not declared with class syntax);
\* root says what the outermost user class extends: "base" (View or
\* Behavior), "object" (nothing) or "library" (a class of another package).
\* A value is [type, keys, inherited]: keys are its own enumerable property
\* names, inherited the other names the `in` operator finds on it.

BASE_EXCLUDES ==
    {"props", "_propsBox", "forwardRef", "onCreate", "onLayoutMount",
     "onMount", "onUnmount", "render", "ref", "use", "constructor",
     "_behaviors", "_layoutMountBehaviors", "_mountBehaviors",
     "_unmountBehaviors"}

BEHAVIOR_EXCLUDES ==
    {"onCreate", "onLayoutMount", "onMount", "onUnmount", "constructor"}

\* The names an empty object literal inherits from Object.prototype.
ObjectPrototypeNames ==
    {"constructor", "toString", "toLocaleString", "valueOf", "hasOwnProperty",
     "isPrototypeOf", "propertyIsEnumerable", "__proto__"}

Value(type, keys, inherited) ==
    [type |-> type, keys |-> keys, inherited |-> inherited]

\* typeof value
TypeOf(value) == IF value.type = "null" THEN "object" ELSE value.type

\* isRefLike: not null, an object, 'current' in value, exactly one own
\* enumerable key.
isRefLike(value) ==
    /\ value.type # "null"
    /\ TypeOf(value) = "object"
    /\ "current" \in value.keys \cup value.inherited
    /\ Cardinality(value.keys) = 1

\* Position of the closest prototype level that defines key (0: none).
Definer(chain, key) ==
    LET ks == { k \in DOMAIN chain : key \in DOMAIN chain[k] }
    IN  IF ks = {} THEN 0 ELSE CHOOSE k \in ks : \A j \in ks : k <= j

\* instance[key]: the own value, else what the closest prototype level
\* gives; a getter and a data property yield a number.
Get(instance, key) ==
    IF key \in DOMAIN instance.own THEN instance.own[key]
    ELSE IF Definer(instance.chain, key) = 0 THEN Value("undefined", {}, {})
    ELSE IF instance.chain[Definer(instance.chain, key)][key] = "method"
    THEN Value("function", {}, {})
    ELSE Value("number", {}, {})

\* [...Object.keys(instance), ...Object.keys(Object.getPrototypeOf(instance))]
OwnKeys(instance) ==
    DOMAIN instance.own
    \cup (IF instance.loose /\ Len(instance.chain) >= 1
          THEN DOMAIN instance.chain[1] ELSE {})

\* Object.getOwnPropertyDescriptors(proto): every class prototype also
\* carries its constructor.
Descriptors(level) == level @@ [constructor |-> "method"]

\* key in annotations: annotations starts as {}, so the names of
\* Object.prototype are found in it from the start.
In(ann, key) == key \in DOMAIN ann \/ key \in ObjectPrototypeNames

Put(ann, key, kind) ==
    [k \in DOMAIN ann \cup {key} |-> IF k = key THEN kind ELSE ann[k]]

\* One turn of the loop over ownKeys.
StateKey(ann, instance, key, excludes, refAware) ==
    IF key \in excludes THEN ann
    ELSE IF In(ann, key) THEN ann
    ELSE IF TypeOf(Get(instance, key)) = "function" THEN ann
    ELSE IF refAware /\ isRefLike(Get(instance, key))
    THEN Put(ann, key, "observable.ref")
    ELSE Put(ann, key, "observable")

RECURSIVE StateKeys(_, _, _, _, _)
StateKeys(ann, instance, keys, excludes, refAware) ==
    IF keys = {} THEN ann
    ELSE LET key == CHOOSE k \in keys : TRUE
         IN  StateKeys(StateKey(ann, instance, key, excludes, refAware),
                       instance, keys \ {key}, excludes, refAware)

\* One turn of the loop over a level's descriptors without the test
\* against the exclusion set.
DescriptorKeyUnfiltered(ann, descriptors, key, excludes, autoBind) ==
    IF In(ann, key) THEN ann
    ELSE IF descriptors[key] = "getter" THEN Put(ann, key, "computed")
    ELSE IF descriptors[key] = "method"
    THEN Put(ann, key, IF autoBind THEN "action.bound" ELSE "action")
    ELSE ann

\* One turn of the loop over a level's descriptors.
DescriptorKey(ann, descriptors, key, excludes, autoBind) ==
    IF key \in excludes THEN ann
    ELSE IF In(ann, key) THEN ann
    ELSE IF descriptors[key] = "getter" THEN Put(ann, key, "computed")
    ELSE IF descriptors[key] = "method"
    THEN Put(ann, key, IF autoBind THEN "action.bound" ELSE "action")
    ELSE ann

RECURSIVE DescriptorKeys(_, _, _, _, _)
DescriptorKeys(ann, descriptors, keys, excludes, autoBind) ==
    IF keys = {} THEN ann
    ELSE LET key == CHOOSE k \in keys : TRUE
         IN  DescriptorKeys(DescriptorKey(ann, descriptors, key, excludes,
                                          autoBind),
                            descriptors, keys \ {key}, excludes, autoBind)

\* The walk up the prototype chain, levels from..upTo.
RECURSIVE Walk(_, _, _, _, _, _)
Walk(ann, chain, from, upTo, excludes, autoBind) ==
    IF from > upTo THEN ann
    ELSE Walk(DescriptorKeys(ann, Descriptors(chain[from]),
                             DOMAIN Descriptors(chain[from]), excludes,
                             autoBind),
              chain, from + 1, upTo, excludes, autoBind)

\* View.prototype: the props accessor and the methods of class View.
ViewPrototype ==
    [props |-> "getter", ref |-> "method", use |-> "method",
     _layoutMountBehaviors |-> "method", _mountBehaviors |-> "method",
     _unmountBehaviors |-> "method"]

\* Behavior.prototype: the class body only declares optional methods.
BehaviorPrototype == <<>>

\* Object.prototype.
ObjectPrototype ==
    [k \in ObjectPrototypeNames \ {"constructor"} |->
        IF k = "__proto__" THEN "getter" ELSE "method"]

\* The prototype of a class of another package, with a method of its own.
LibraryPrototype == [emit |-> "method"]

\* The prototype objects Object.getPrototypeOf finds above the instance,
\* in order, down to the one whose prototype is null.
Prototypes(instance, base) ==
    instance.chain \o
    (CASE instance.root = "base" -> <<base, ObjectPrototype>>
       [] instance.root = "object" -> <<ObjectPrototype>>
       [] instance.root = "library" -> <<LibraryPrototype, ObjectPrototype>>)

\* while (proto && proto !== Base.prototype): the number of levels the
\* loop visits before it meets the base prototype or null.
LastVisited(instance, base) ==
    IF instance.root = "base" THEN Len(instance.chain)
    ELSE Len(Prototypes(instance, base))

\* The annotation map of makeViewObservable once the walk has visited the
\* first `depth` prototype levels.
ViewAnnotations(instance, autoBind, depth) ==
    Walk(StateKeys(<<>>, instance, OwnKeys(instance), BASE_EXCLUDES, TRUE),
         Prototypes(instance, ViewPrototype), 1, depth, BASE_EXCLUDES,
         autoBind)

makeViewObservable(instance, autoBind) ==
    ViewAnnotations(instance, autoBind, LastVisited(instance, ViewPrototype))

\* The same for makeBehaviorObservable: no ref detection, bound actions.
BehaviorAnnotations(instance, depth) ==
    Walk(StateKeys(<<>>, instance, OwnKeys(instance), BEHAVIOR_EXCLUDES, FALSE),
         Prototypes(instance, BehaviorPrototype), 1, depth,
         BEHAVIOR_EXCLUDES, TRUE)

makeBehaviorObservable(instance) ==
    BehaviorAnnotations(instance, LastVisited(instance, BehaviorPrototype))

\* new BehaviorClass(...args) with BehaviorClass = class extends Def: the
\* instance's immediate prototype is the one of the wrapping class, which
\* holds a constructor and nothing else.
Wrapped(instance) ==
    [instance EXCEPT !.chain = << <<>> >> \o @, !.loose = FALSE]

-----------------------------------------------------------------------------
\* The host: React calling the component and its effects

Fx(status, cleanup) == [status |-> status, cleanup |-> cleanup]

Commit(c) ==
    /\ log' = c.log
    /\ reports' = c.reports
    /\ _behaviors' = c.beh
    /\ nextId' = c.next
    /\ escaped' = IF c.thrown THEN escaped + 1 ELSE escaped

Static == <<guarded, viewClass, fields, fault, template, inputs, built,
            viewOption, autoObservable, subject, classified, annotations,
            views, boxes>>

\* First render pass: the initializer, the props write, the render check.
\* A render that throws is discarded by React and no effect is ever run.
FirstRender ==
    /\ built
    /\ host = "idle"
    /\ renders = 0
    /\ LET Render(c, failed) ==
               /\ log' = c.log
               /\ reports' = c.reports
               /\ _behaviors' = c.beh
               /\ nextId' = c.next
               /\ escaped' = IF failed THEN escaped + 1 ELSE escaped
               /\ props' = c.props
               /\ forwardRef' = c.forwardRef
               /\ vmMode' = c.mode
               /\ host' = IF failed THEN "failed" ELSE "live"
               /\ layoutFx' = IF failed THEN layoutFx ELSE Fx("pending", 0)
               /\ mountFx' = IF failed THEN mountFx ELSE Fx("pending", 0)
           Checked(c) == Render(c, c.thrown \/ MissingRender)
       IN  Checked(Component(Ctx(_behaviors)))
    /\ renders' = 1
    /\ UNCHANGED <<Static, globalConfig, calls>>

\* A later render pass of the mounted component; its effects have empty
\* dependency lists and are not run again.
Rerender ==
    /\ host = "live"
    /\ mountFx.status = "set"
    /\ layoutFx.status = "set"
    /\ renders >= 1
    /\ renders < Len(inputs)
    /\ LET Render(c) ==
               /\ Commit(c)
               /\ props' = c.props
               /\ forwardRef' = c.forwardRef
               /\ vmMode' = c.mode
       IN  Render(Component(Ctx(_behaviors)))
    /\ renders' = renders + 1
    /\ UNCHANGED <<Static, globalConfig, host, layoutFx, mountFx, calls>>

\* React runs the layout effect of the committed component.
LayoutEffect ==
    /\ host = "live"
    /\ layoutFx.status = "pending"
    /\ LET c == useLayoutEffectSetup(Ctx(_behaviors))
       IN  /\ Commit(c)
           /\ layoutFx' = IF c.thrown THEN Fx("threw", 0) ELSE Fx("set", c.ret)
    /\ UNCHANGED <<Static, globalConfig, host, mountFx, vmMode, props, forwardRef, renders,
                   calls>>

\* React runs the passive effect, after the layout effect.
Effect ==
    /\ host = "live"
    /\ layoutFx.status # "pending"
    /\ mountFx.status = "pending"
    /\ LET c == useEffectSetup(Ctx(_behaviors))
       IN  /\ Commit(c)
           /\ mountFx' = IF c.thrown THEN Fx("threw", 0) ELSE Fx("set", c.ret)
    /\ UNCHANGED <<Static, globalConfig, host, layoutFx, vmMode, props, forwardRef, renders,
                   calls>>

\* React unmounts the component, on its parent's decision or because an
\* effect threw; pending passive effects are flushed first.  The layout
\* effect's cleanup runs first, if that effect was set up.
Unmount ==
    /\ host = "live"
    /\ layoutFx.status # "pending"
    /\ mountFx.status # "pending"
    /\ LET c == IF layoutFx.status = "set"
                THEN useLayoutEffectCleanup(Ctx(_behaviors), layoutFx.cleanup)
                ELSE Ctx(_behaviors)
       IN  Commit(c)
    /\ host' = "unmounting"
    /\ UNCHANGED <<Static, globalConfig, layoutFx, mountFx, vmMode, props,
                   forwardRef, renders, calls>>

\* ... then the passive effect's cleanup, if that effect was set up.
PassiveCleanup ==
    /\ host = "unmounting"
    /\ LET c == IF mountFx.status = "set"
                THEN useEffectCleanup(Ctx(_behaviors), mountFx.cleanup)
                ELSE Ctx(_behaviors)
       IN  Commit(c)
    /\ host' = "unmounted"
    /\ UNCHANGED <<Static, globalConfig, layoutFx, mountFx, vmMode, props,
                   forwardRef, renders, calls>>

-----------------------------------------------------------------------------
\* Inputs

\* The call sites of user code that can throw, for the classes chosen.
FaultSites(g, vc, fs) ==
    { s \in [who : 0..Len(fs), what : Phases \cup Closures] :
        LET cls == IF s.who = 0 THEN vc ELSE fs[s.who].cls
        IN  CASE s.what \in Phases -> Defines(cls, s.what)
              [] s.what = "layoutCleanup" -> Returns(cls, "onLayoutMount")
              [] s.what = "cleanup" ->
                    Returns(cls, "onMount")
                    \/ (~g /\ ~Defines(cls, "onMount") /\ Returns(cls, "mount")) }

\* The Views of the lifecycle runs render themselves and define onCreate.
SpecViewClasses == { v \in ViewClasses : v.render /\ v.onCreate }

\* The Behaviors of the lifecycle runs use the primary hook names.
SpecBehaviorClasses ==
    { b \in BehaviorClasses :
        /\ b.mount = "absent"
        /\ b.onCreate
        /\ b.onLayoutMount # "void"
        /\ b.onMount # "void" }

\* The render passes the parent makes: a payload and a ref each.  The
\* second payload lacks a field of the first.
Passes ==
    << [props |-> [a |-> 1, b |-> 1], ref |-> 1],
       [props |-> [a |-> 2], ref |-> 2] >>

\* use(Thing, options) takes no construction arguments.
NoArgs == {<<>>}

Attachments(classes, opts, argLists) ==
    [cls : classes, opt : opts, args : argLists]

SeqsUpTo(S, n) == UNION { [1..k -> S] : k \in 0..n }

InitDynamic ==
    /\ globalConfig = [autoObservable |-> TRUE]
    /\ host = "idle"
    /\ layoutFx = Fx("none", 0)
    /\ mountFx = Fx("none", 0)
    /\ _behaviors = <<>>
    /\ vmMode = "none"
    /\ props = <<>>
    /\ forwardRef = 0
    /\ renders = 0
    /\ nextId = 1
    /\ calls = 0
    /\ escaped = 0
    /\ log = <<>>
    /\ reports = <<>>
    /\ classified = "none"
    /\ annotations = <<>>
    /\ views = <<>>
    /\ boxes = <<>>

\* An instance with no member of its own.
BareSubject == [own |-> <<>>, chain |-> <<>>, loose |-> FALSE, root |-> "base"]

Init ==
    /\ guarded \in BOOLEAN
    /\ viewClass \in SpecViewClasses
    /\ fields \in SeqsUpTo(Attachments(SpecBehaviorClasses, {"unset"}, NoArgs), MaxBehaviors)
    /\ fault \in {NoFault} \cup FaultSites(guarded, viewClass, fields)
    /\ template = FALSE
    /\ inputs = Passes
    /\ built = TRUE
    /\ viewOption = "unset"
    /\ autoObservable = TRUE
    /\ subject = BareSubject
    /\ InitDynamic

Next ==
    \/ FirstRender
    \/ Rerender
    \/ LayoutEffect
    \/ Effect
    \/ Unmount
    \/ PassiveCleanup

Spec == Init /\ [][Next]_vars

-----------------------------------------------------------------------------
\* Construction runs: the options and the create hooks vary, no other hook
\* is defined.

CreateViewClasses ==
    { v \in ViewClasses :
        v.onLayoutMount = "absent" /\ v.onMount = "absent" /\ ~v.onUnmount }

CreateBehaviorClasses ==
    { b \in BehaviorClasses :
        /\ b.onLayoutMount = "absent"
        /\ b.onMount = "absent"
        /\ b.mount = "absent"
        /\ ~b.onUnmount }

InitCreate ==
    /\ guarded \in BOOLEAN
    /\ viewClass \in CreateViewClasses
    /\ fields \in SeqsUpTo(Attachments(CreateBehaviorClasses, Options, NoArgs), MaxBehaviors)
    /\ fault = NoFault
    /\ template \in BOOLEAN
    /\ inputs = Passes
    /\ built = TRUE
    /\ viewOption \in IF template THEN {"unset"} ELSE Options
    /\ autoObservable = (viewOption # "false")
    /\ subject = BareSubject
    /\ InitDynamic

SpecCreate == InitCreate /\ [][Next]_vars

-----------------------------------------------------------------------------
\* Direct runs: a caller drives the exported entry functions of ./behavior
\* on one entry, in any order.

PlainView ==
    [onCreate |-> FALSE, onLayoutMount |-> "absent", onMount |-> "absent",
     onUnmount |-> FALSE, render |-> TRUE]

EntryBehaviorClasses == { b \in BehaviorClasses : b.onCreate }

InitEntry ==
    /\ guarded \in BOOLEAN
    /\ viewClass = PlainView
    /\ fields \in [1..1 -> Attachments(EntryBehaviorClasses, {"unset"}, NoArgs)]
    /\ fault \in {NoFault}
                 \cup { s \in FaultSites(guarded, viewClass, fields) : s.who = 1 }
    /\ template = FALSE
    /\ inputs = SubSeq(Passes, 1, 1)
    /\ built = TRUE
    /\ viewOption = "unset"
    /\ autoObservable = TRUE
    /\ subject = BareSubject
    /\ InitDynamic

Untouched == <<Static, globalConfig, host, layoutFx, mountFx, vmMode, props,
               forwardRef, renders>>

\* this.use(Thing)
AttachCall ==
    /\ _behaviors = <<>>
    /\ calls = 0
    /\ Commit(use(Ctx(_behaviors), 1))
    /\ UNCHANGED <<Untouched, calls>>

LayoutMountCall(k) ==
    /\ calls < MaxCalls
    /\ Commit(LayoutMountEntry(Ctx(_behaviors), k))
    /\ calls' = calls + 1
    /\ UNCHANGED Untouched

MountCall(k) ==
    /\ calls < MaxCalls
    /\ Commit(MountEntry(Ctx(_behaviors), k))
    /\ calls' = calls + 1
    /\ UNCHANGED Untouched

UnmountCall(k) ==
    /\ calls < MaxCalls
    /\ Commit(UnmountEntry(Ctx(_behaviors), k))
    /\ calls' = calls + 1
    /\ UNCHANGED Untouched

NextEntry ==
    \/ AttachCall
    \/ \E k \in DOMAIN _behaviors : LayoutMountCall(k)
    \/ \E k \in DOMAIN _behaviors : MountCall(k)
    \/ \E k \in DOMAIN _behaviors : UnmountCall(k)

SpecEntry == InitEntry /\ [][NextEntry]_vars

-----------------------------------------------------------------------------
\* Configuration runs: configure() calls come before the createView call,
\* between it and the first render pass, and after.

\* The arguments of configure(): a partial MicaConfig, possibly {}.
ConfigArgs == { [autoObservable |-> TRUE], [autoObservable |-> FALSE], <<>> }

\* What the log shows of one configure() argument.
ConfigCode(config) ==
    IF DOMAIN config = {} THEN 2 ELSE IF config.autoObservable THEN 1 ELSE 0

\* configure(config): Object.assign(globalConfig, config)
configure(config) ==
    /\ Cardinality({ i \in DOMAIN log : log[i].what = "configure" })
          < MaxConfigures
    /\ globalConfig' = config @@ globalConfig
    /\ log' = Append(log, Ev(-1, "configure", ConfigCode(config)))
    /\ UNCHANGED <<Static, host, layoutFx, mountFx, _behaviors, vmMode, props,
                   forwardRef, renders, nextId, calls, escaped, reports>>

\* createView reading the global setting only.
ViewAutoIgnoringOption(opt) == globalConfig.autoObservable

\* const { autoObservable = globalConfig.autoObservable } = options
ViewAuto(opt) ==
    IF opt = "unset" THEN globalConfig.autoObservable ELSE opt = "true"

\* createView(ViewClass, templateOrOptions): the mode is resolved here.
createView ==
    /\ ~built
    /\ built' = TRUE
    /\ autoObservable' = ViewAuto(viewOption)
    /\ log' = Append(log, Ev(0, "createView", 0))
    /\ UNCHANGED <<guarded, viewClass, fields, fault, template, inputs,
                   subject, classified, annotations, views, boxes,
                   viewOption, globalConfig, host, layoutFx, mountFx,
                   _behaviors, vmMode, props, forwardRef, renders, nextId,
                   calls, escaped, reports>>

\* The argument lists a createBehavior factory is called with.
ArgLists == { <<>>, <<1>>, <<1, 2>> }

ConfigView ==
    [onCreate |-> TRUE, onLayoutMount |-> "absent", onMount |-> "absent",
     onUnmount |-> FALSE, render |-> TRUE]

InitConfig ==
    /\ guarded \in BOOLEAN
    /\ viewClass = ConfigView
    /\ fields \in SeqsUpTo(Attachments(CreateBehaviorClasses, Options,
                                       IF guarded THEN ArgLists ELSE NoArgs),
                            MaxBehaviors)
    /\ fault = NoFault
    /\ template = FALSE
    /\ inputs = Passes
    /\ built = FALSE
    /\ viewOption \in Options
    /\ autoObservable = FALSE
    /\ subject = BareSubject
    /\ InitDynamic

NextConfig ==
    \/ \E config \in ConfigArgs : configure(config)
    \/ createView
    \/ FirstRender

SpecConfig == InitConfig /\ [][NextConfig]_vars

-----------------------------------------------------------------------------
\* Classification runs: one instance, classified as a View or as a Behavior.

\* A user's own name, a lifecycle name, a name Object.prototype defines.
MemberNames == {"count", "onMount", "toString"}

Number == Value("number", {}, {})

\* Field values: a primitive, null, a function, a ref ({ current }), an
\* object with a second key, an object with one key of its own that
\* inherits `current` from its class, an object without `current`.
FieldValues ==
    { Number,
      Value("null", {}, {}),
      Value("function", {}, {}),
      Value("object", {"current"}, {}),
      Value("object", {"current", "x"}, {}),
      Value("object", {"x"}, {"current"}),
      Value("object", {"x"}, {}) }

PartialMaps(names, values) == UNION { [D -> values] : D \in SUBSET names }

\* The prototype levels: at most MaxMembers members each.
Levels ==
    UNION { [D -> {"getter", "method", "data"}] :
              D \in { E \in SUBSET MemberNames : Cardinality(E) <= MaxMembers } }

\* Instances with fields of every kind under at most one subclass level,
\* and instances with plain fields under chains of up to MaxLevels levels.
Roots == {"base", "object", "library"}

Subjects ==
    [own : PartialMaps(MemberNames, FieldValues),
     chain : SeqsUpTo(Levels, 1), loose : BOOLEAN, root : {"base"}]
    \cup [own : PartialMaps(MemberNames, {Number}),
          chain : SeqsUpTo(Levels, MaxLevels), loose : BOOLEAN, root : Roots]

InitClassify ==
    /\ guarded = TRUE
    /\ viewClass = PlainView
    /\ fields = <<>>
    /\ fault = NoFault
    /\ template = FALSE
    /\ inputs = Passes
    /\ built = TRUE
    /\ viewOption = "unset"
    /\ autoObservable = TRUE
    /\ subject \in Subjects
    /\ InitDynamic

\* The fields the View constructor and the useState initializer have set
\* on the instance by the time it is classified.
WithBaseFields(instance) ==
    [instance EXCEPT !.own =
        @ @@ [_behaviors |-> Value("object", {}, {}),
              _propsBox  |-> Value("object", {}, {"get", "set"}),
              forwardRef |-> Value("object", {"current"}, {})]]

Unclassified ==
    <<guarded, viewClass, fields, fault, template, inputs, built, viewOption,
      autoObservable, subject, globalConfig, host, layoutFx, mountFx,
      _behaviors, vmMode, props, forwardRef, renders, nextId, calls, escaped,
      log, reports, views, boxes>>

\* makeViewObservable(instance, true), as the useState initializer calls
\* it; createView takes classes that extend View.
ClassifyView ==
    /\ classified = "none"
    /\ subject.root = "base"
    /\ annotations' = makeViewObservable(WithBaseFields(subject), TRUE)
    /\ classified' = "view"
    /\ UNCHANGED Unclassified

\* makeBehaviorObservable(this), as the createBehavior constructor calls it.
ClassifyBehavior ==
    /\ classified = "none"
    /\ annotations' = makeBehaviorObservable(Wrapped(subject))
    /\ classified' = "behavior"
    /\ UNCHANGED Unclassified

NextClassify == ClassifyView \/ ClassifyBehavior

SpecClassify == InitClassify /\ [][NextClassify]_vars

-----------------------------------------------------------------------------
\* Several instances of one component: objects are told apart by identity,
\* nextId being the next identity the runtime hands out.

\* One props box made when createView is called, for all instances.
BoxOfComponent(heap) == 0

\* observable.box(props, { deep: false }) in the useState initializer: a
\* new object each time the initializer runs.
NewBox(heap) == heap

\* The entries that the field initializers of a new instance push onto its
\* own _behaviors array: use() makes a new Thing() for each.
NewEntries(heap) ==
    [i \in 1..Len(fields) |-> [instance |-> heap + i - 1]]

InitMulti ==
    /\ guarded = FALSE
    /\ viewClass = ConfigView
    /\ fields \in SeqsUpTo(Attachments({CHOOSE b \in CreateBehaviorClasses :
                                            b.onCreate},
                                       {"unset"}, NoArgs),
                            MaxBehaviors)
    /\ fault = NoFault
    /\ template = FALSE
    /\ inputs = Passes
    /\ built = TRUE
    /\ viewOption = "unset"
    /\ autoObservable = TRUE
    /\ subject = BareSubject
    /\ InitDynamic

Unshared ==
    <<guarded, viewClass, fields, fault, template, inputs, built, viewOption,
      autoObservable, subject, classified, annotations, globalConfig, host,
      layoutFx, mountFx, _behaviors, vmMode, props, forwardRef, renders,
      calls, escaped, log, reports>>

\* The first render pass of one more instance of the component: the
\* useState initializer makes the View, its Behaviors and its props box.
MountView ==
    /\ Len(views) < MaxViews
    /\ LET vm == nextId
           entries == NewEntries(vm + 1)
           box == NewBox(vm + 1 + Len(fields))
       IN  /\ views' = Append(views, [vm |-> vm, _propsBox |-> box,
                                      _behaviors |-> entries, renders |-> 1,
                                      live |-> TRUE])
           /\ boxes' = [b \in DOMAIN boxes \cup {box} |->
                          IF b = box THEN SetProps(<<>>, inputs[1].props)
                          ELSE boxes[b]]
           /\ nextId' = vm + 2 + Len(fields)
    /\ UNCHANGED Unshared

\* A later render pass of instance v: vm.props = props.
RerenderView(v) ==
    /\ views[v].live
    /\ views[v].renders < Len(inputs)
    /\ boxes' = [boxes EXCEPT ![views[v]._propsBox] =
                    SetProps(@, inputs[views[v].renders + 1].props)]
    /\ views' = [views EXCEPT ![v].renders = @ + 1]
    /\ UNCHANGED <<Unshared, nextId>>

\* React unmounts instance v.
UnmountView(v) ==
    /\ views[v].live
    /\ views' = [views EXCEPT ![v].live = FALSE]
    /\ UNCHANGED <<Unshared, nextId, boxes>>

NextMulti ==
    \/ MountView
    \/ \E v \in DOMAIN views : RerenderView(v)
    \/ \E v \in DOMAIN views : UnmountView(v)

SpecMulti == InitMulti /\ [][NextMulti]_vars

-----------------------------------------------------------------------------
\* Reading the log

Idx == DOMAIN log

Has(who, what) == \E i \in Idx : log[i].who = who /\ log[i].what = what

Behaviors == 1..Len(fields)

ViewHooks == {"onCreate", "onLayoutMount", "onMount", "onUnmount"}

HookRank(what) ==
    CASE what = "onCreate"      -> 1
      [] what = "onLayoutMount" -> 2
      [] what = "onMount"       -> 3
      [] what = "mount"         -> 3
      [] what = "onUnmount"     -> 4

\* The steps of one instance's teardown.
Teardown == {"layoutCleanup", "cleanup", "onUnmount"}

TeardownRank(what) ==
    CASE what = "layoutCleanup" -> 1
      [] what = "cleanup"       -> 2
      [] what = "onUnmount"     -> 3

\* The hooks that can hand back a cleanup, and the slot each one fills.
MountHooks == {"onLayoutMount", "onMount", "mount"}

SlotOf(hook) == IF hook = "onLayoutMount" THEN "layoutCleanup" ELSE "cleanup"

\* log[h] is a hook call that returned a cleanup closure.
ReturnedCleanup(h) == log[h].what \in MountHooks /\ log[h].id # 0

\* log[i] is the invocation of the closure that log[h] returned.
Invokes(i, h) ==
    /\ log[i].who = log[h].who
    /\ log[i].what = SlotOf(log[h].what)
    /\ log[i].id = log[h].id

\* use() returned a before it returned b.
RegisteredBefore(a, b) ==
    \E i, j \in Idx :
        /\ i < j
        /\ log[i] = Ev(a, "return", 0)
        /\ log[j] = Ev(b, "return", 0)

\* globalConfig.autoObservable as it stood when log[i] was written: what
\* the last configure() call before it set, true if there was none.
GlobalAt(i) ==
    LET cs == { j \in Idx : j < i /\ log[j].what = "configure" /\ log[j].id # 2 }
    IN  IF cs = {} THEN TRUE
        ELSE log[CHOOSE j \in cs : \A k \in cs : k <= j].id = 1

\* How the Behavior instance b was annotated, from its entry in the list.
ModeOf(b) ==
    LET k == CHOOSE k \in DOMAIN _behaviors : _behaviors[k].instance = b
    IN  _behaviors[k].mode

\* The mode a local option asks for, the global setting standing in for a
\* missing one.
Requested(opt, global) == IF opt = "unset" THEN global ELSE opt = "true"

-----------------------------------------------------------------------------
\* C1: the hooks of a View are invoked in phase order: no onLayoutMount,
\* onMount or onUnmount call of the View precedes a call of one of its
\* earlier-phase hooks (onCreate < onLayoutMount < onMount < onUnmount).
ViewHooksInPhaseOrder ==
    \A i, j \in Idx :
        ( /\ log[i].who = 0 /\ log[j].who = 0
          /\ log[i].what \in ViewHooks /\ log[j].what \in ViewHooks
          /\ HookRank(log[i].what) < HookRank(log[j].what) )
        => i < j

\* A View that received all four phases.
ViewReceivedAllPhases ==
    /\ host = "unmounted"
    /\ \A h \in ViewHooks : Has(0, h)

\* C2: within the teardown of one instance (View or Behavior) the layout
\* cleanup comes first, then the mount cleanup, then onUnmount; and when
\* onUnmount is called, every cleanup the instance's hooks returned has
\* already been invoked, from the slot of the hook that returned it.
TeardownOrder ==
    /\ \A i, j \in Idx :
          ( /\ log[i].who = log[j].who
            /\ log[i].what \in Teardown /\ log[j].what \in Teardown
            /\ TeardownRank(log[i].what) < TeardownRank(log[j].what) )
          => i < j
    /\ \A j, h \in Idx :
          ( /\ log[j].what = "onUnmount"
            /\ log[h].who = log[j].who
            /\ ReturnedCleanup(h) )
          => \E i \in Idx : i < j /\ Invokes(i, h)

\* A View and a Behavior that each ran both cleanups and onUnmount.
FullTeardownRan ==
    /\ host = "unmounted"
    /\ \A t \in Teardown : Has(0, t)
    /\ \E b \in Behaviors : \A t \in Teardown : Has(b, t)

\* A Behavior with no layout cleanup that ran its mount cleanup and onUnmount.
MissingCleanupSkipped ==
    /\ host = "unmounted"
    /\ \E b \in Behaviors :
          /\ ~Has(b, "layoutCleanup")
          /\ Has(b, "cleanup")
          /\ Has(b, "onUnmount")

\* C3: no cleanup closure stored for a Behavior entry is invoked twice.
CleanupInvokedAtMostOnce ==
    \A i, j \in Idx :
        ( /\ log[i].who >= 1
          /\ log[i].what \in {"layoutCleanup", "cleanup"}
          /\ log[j].what = log[i].what
          /\ log[j].who = log[i].who
          /\ log[j].id = log[i].id )
        => i = j

\* C4: once the host has unmounted the View, every cleanup closure that a
\* layout-mount or mount hook of the View or of a Behavior returned has
\* been invoked.
CleanupsRunAtUnmount ==
    host = "unmounted"
    => \A h \in Idx : ReturnedCleanup(h) => \E i \in Idx : Invokes(i, h)

\* C5: when the onMount hook of Behavior A has thrown and the passive
\* effect has run, the onMount hook of every Behavior registered after A
\* has been called, and so has the View's onMount.
MountIsolation ==
    ( /\ mountFx.status \in {"set", "threw"}
      /\ fault.who >= 1
      /\ fault.what = "onMount"
      /\ Has(fault.who, "onMount") )
    => /\ \A b \in Behaviors :
             (RegisteredBefore(fault.who, b) /\ Defines(ClassOf(b), "onMount"))
             => Has(b, "onMount")
       /\ Defines(viewClass, "onMount") => Has(0, "onMount")

\* C6: an exception thrown by a Behavior's onLayoutMount, onMount or
\* onUnmount hook does not leave the library, and the reporter has received
\* exactly one record for it: the hook's name, the class name, isBehavior.
BehaviorHookErrorReported ==
    ( /\ fault.who >= 1
      /\ fault.what \in Phases
      /\ Has(fault.who, fault.what) )
    => /\ escaped = 0
       /\ reports = << [phase |-> fault.what, name |-> NameOf(fault.who),
                        isBehavior |-> TRUE] >>

\* C7: within one phase the Behaviors are visited in registration order:
\* if use() returned A before B, A's hook of a phase precedes B's.
RegistrationOrder ==
    \A i, j \in Idx :
        ( /\ log[i].who >= 1 /\ log[j].who >= 1
          /\ log[i].what \in Phases \cup {"mount"}
          /\ log[j].what \in Phases \cup {"mount"}
          /\ HookRank(log[i].what) = HookRank(log[j].what)
          /\ RegisteredBefore(log[i].who, log[j].who) )
        => i < j

\* Two Behaviors that both ran all three phases.
TwoBehaviorsRanAllPhases ==
    \E a, b \in Behaviors :
        /\ a # b
        /\ \A ph \in Phases : Has(a, ph) /\ Has(b, ph)

\* C8 as stated: in the layout-mount and mount phases the View's own hook
\* precedes every hook of its Behaviors.
ViewHookBeforeBehaviorHooks ==
    \A i, j \in Idx :
        ( /\ log[i].who = 0 /\ log[j].who >= 1
          /\ log[i].what \in {"onLayoutMount", "onMount"}
          /\ log[j].what \in MountHooks
          /\ HookRank(log[j].what) = HookRank(log[i].what) )
        => i < j

\* C8 as amended: in the layout-mount and mount phases every hook of the
\* View's Behaviors precedes the View's own hook of that phase.
BehaviorHooksBeforeViewHook ==
    \A i, j \in Idx :
        ( /\ log[i].who = 0 /\ log[j].who >= 1
          /\ log[i].what \in {"onLayoutMount", "onMount"}
          /\ log[j].what \in MountHooks
          /\ HookRank(log[j].what) = HookRank(log[i].what) )
        => j < i

\* A View and a Behavior that both ran onLayoutMount and onMount.
ViewAndBehaviorMounted ==
    /\ Has(0, "onLayoutMount") /\ Has(0, "onMount")
    /\ \E b \in Behaviors : Has(b, "onLayoutMount") /\ Has(b, "onMount")

\* C9: no step of a Behavior's teardown (its cleanups, its onUnmount)
\* happens before the View's onUnmount, if the View defines one, nor
\* before the invocation of a cleanup that a View hook returned.
ViewTeardownBeforeBehaviors ==
    \A j \in Idx :
        (log[j].who >= 1 /\ log[j].what \in Teardown)
        => /\ Defines(viewClass, "onUnmount")
                => \E i \in Idx : i < j /\ log[i] = Ev(0, "onUnmount", 0)
           /\ \A h \in Idx :
                (log[h].who = 0 /\ ReturnedCleanup(h))
                => \E i \in Idx : i < j /\ Invokes(i, h)

\* A View that ran both cleanups and onUnmount, and a Behavior torn down.
ViewAndBehaviorTornDown ==
    /\ \A t \in Teardown : Has(0, t)
    /\ \E b \in Behaviors : \A t \in Teardown : Has(b, t)

\* C10 as stated: every onCreate call, of a View or of a Behavior, comes
\* after the annotation step of that instance and before the instance is
\* handed back.
CreateAfterAnnotation ==
    \A j \in Idx :
        log[j].what = "onCreate"
        => /\ \E i \in Idx : i < j /\ log[i] = Ev(log[j].who, "annotate", 0)
           /\ \A i \in Idx : log[i] = Ev(log[j].who, "return", 0) => j < i

\* C10 as amended: every onCreate call comes before the instance is handed
\* back, and an instance that defines onCreate is not handed back without
\* the call.  For the View, and for a Behavior made by
\* createBehaviorInstance with observable not false, the annotation step
\* precedes the call; with observable false there is no annotation step;
\* for a Behavior made by a createBehavior factory the call precedes the
\* annotation step, which precedes the hand-back.
CreateHookPlacement ==
    /\ \A j \in Idx :
          log[j].what = "onCreate"
          => LET w == log[j].who
                 annotated(lo, hi) ==
                     \E i \in Idx : lo < i /\ i < hi /\ log[i] = Ev(w, "annotate", 0)
             IN  /\ \A i \in Idx : log[i] = Ev(w, "return", 0) => j < i
                 /\ (w = 0 \/ (~guarded /\ fields[w].opt # "false"))
                      => annotated(0, j)
                 /\ (w >= 1 /\ ~guarded /\ fields[w].opt = "false")
                      => ~Has(w, "annotate")
                 /\ (w >= 1 /\ guarded)
                      => /\ ~annotated(0, j)
                         /\ \A i \in Idx :
                               log[i] = Ev(w, "return", 0) => annotated(j, i)
    /\ \A i \in Idx :
          (log[i].what = "return" /\ Defines(ClassOf(log[i].who), "onCreate"))
          => \E j \in Idx : j < i /\ log[j].who = log[i].who
                                  /\ log[j].what = "onCreate"

\* A View whose onCreate ran, with a Behavior of each construction path
\* covered by the run's variant whose onCreate ran.
CreateHooksRan ==
    /\ host = "live"
    /\ Has(0, "onCreate")
    /\ \E b \in Behaviors : Has(b, "onCreate") /\ Has(b, "return")

Count(who, what) ==
    Cardinality({ i \in Idx : log[i].who = who /\ log[i].what = what })

\* C12: after any number of render passes of the mounted component the
\* View class has been instantiated once, its props box installed once and
\* its onCreate called once (if defined); each Behavior of its field
\* initializers exists once; the instance carries the props and the ref of
\* the latest pass.
OneInstancePerMount ==
    renders >= 1
    => /\ Count(0, "construct") = 1
       /\ Count(0, "propsBox") = 1
       /\ Count(0, "annotate") = 1
       /\ Count(0, "onCreate") = IF Defines(viewClass, "onCreate") THEN 1 ELSE 0
       /\ \A b \in Behaviors : Count(b, "construct") = 1
       /\ Len(_behaviors) = Len(fields)
       /\ forwardRef = inputs[renders].ref

\* The component was rendered twice.
RenderedTwice ==
    /\ renders = 2
    /\ Has(0, "onCreate")
    /\ Len(_behaviors) >= 1

\* C13: once the component has rendered, reading props gives the payload
\* of the latest render pass, field for field, in auto-observable and in
\* explicit-annotation mode; and the box holding the first payload is
\* installed before the View's onCreate is called.
PropsAreLatestPayload ==
    /\ renders >= 1 => props = inputs[renders].props
    /\ \A j \in Idx :
          (log[j].who = 0 /\ log[j].what = "onCreate")
          => \E i \in Idx : i < j /\ log[i] = Ev(0, "propsBox", 1)

\* A View in explicit-annotation mode that received P1 then P2.
SecondPayloadRead ==
    /\ renders = 2
    /\ vmMode = "explicit"
    /\ Has(0, "onCreate")
    /\ inputs[1].props # inputs[2].props

\* C14: every View and every Behavior constructed without a local option
\* is in auto-observable mode exactly when the last configure() call
\* before its construction asked for it (or none was made).
ConfigureAffectsLaterInstances ==
    \A i \in Idx :
        log[i].what = "construct"
        => LET w == log[i].who
           IN  /\ (w = 0 /\ viewOption = "unset" /\ renders >= 1)
                    => (vmMode = "auto") = GlobalAt(i)
               /\ (w >= 1 /\ fields[w].opt = "unset")
                    => (ModeOf(w) = "auto") = GlobalAt(i)

\* C15 as stated: the View and every attached Behavior is in
\* auto-observable mode exactly when its local option asks for it, or,
\* without one, when the global setting does at the moment the mode is
\* resolved.
LocalOptionElseGlobal ==
    /\ \A i \in Idx :
          log[i] = Ev(0, "createView", 0)
          => autoObservable = Requested(viewOption, GlobalAt(i))
    /\ renders >= 1 => (vmMode = "auto") = autoObservable
    /\ \A i \in Idx :
          (log[i].what = "construct" /\ log[i].who >= 1)
          => (ModeOf(log[i].who) = "auto")
                = Requested(fields[log[i].who].opt, GlobalAt(i))

\* C15 as amended: a View is in auto-observable mode when the option
\* passed to createView asks for it or, without one, when the global
\* setting did at the createView call, and in explicit mode otherwise; a
\* Behavior of a createBehavior factory likewise, with the global setting
\* read at its construction; a Behavior attached through use() is made
\* auto-observable unless observable: false was passed, whatever the
\* global setting, and is then not annotated at all.
EffectiveMode ==
    /\ \A i \in Idx :
          log[i] = Ev(0, "createView", 0)
          => autoObservable = Requested(viewOption, GlobalAt(i))
    /\ renders >= 1
       => vmMode = IF autoObservable THEN "auto" ELSE "explicit"
    /\ \A i \in Idx :
          (log[i].what = "construct" /\ log[i].who >= 1)
          => LET w == log[i].who
             IN  ModeOf(w) =
                   IF guarded
                   THEN IF Requested(fields[w].opt, GlobalAt(i))
                        THEN "auto" ELSE "explicit"
                   ELSE IF fields[w].opt = "false" THEN "none" ELSE "auto"

\* A local true overrode a global false for the View, next to a Behavior
\* whose local false overrode a global true at the start.
LocalOverridesGlobal ==
    /\ renders >= 1
    /\ viewOption = "true"
    /\ vmMode = "auto"
    /\ \E i \in Idx : log[i] = Ev(0, "createView", 0) /\ ~GlobalAt(i)
    /\ \E b \in Behaviors : fields[b].opt = "false" /\ Has(b, "return")

\* C16: a Behavior that defines onCreate has been handed back after
\* exactly one onCreate call, made with the arguments of its attachment in
\* their order; one that does not define it is handed back with no call.
CreateArgsForwarded ==
    \A i \in Idx :
        (log[i].what = "return" /\ log[i].who >= 1)
        => LET w == log[i].who
           IN  IF Defines(ClassOf(w), "onCreate")
               THEN /\ Count(w, "onCreate") = 1
                    /\ \E j \in Idx :
                          /\ j < i
                          /\ log[j].who = w
                          /\ log[j].what = "onCreate"
                          /\ log[j].args = fields[w].args
               ELSE Count(w, "onCreate") = 0

\* A Behavior attached with two arguments next to one without onCreate.
TwoArgsForwarded ==
    /\ \E b \in Behaviors :
          /\ fields[b].args = <<1, 2>>
          /\ Has(b, "onCreate") /\ Has(b, "return")
    /\ \E b \in Behaviors :
          ~Defines(ClassOf(b), "onCreate") /\ Has(b, "return")

\* The value is an object whose only key is `current`.
OnlyKeyIsCurrent(value) == value.type = "object" /\ value.keys = {"current"}

\* C17: after makeViewObservable, every own property of the instance whose
\* name is not in the exclusion set is a key of the annotation map, mapped
\* to observable.ref when its value is an object whose only key is
\* `current` and to observable otherwise.
OwnFieldsAnnotated ==
    classified = "view"
    => \A key \in DOMAIN subject.own \ BASE_EXCLUDES :
          /\ key \in DOMAIN annotations
          /\ annotations[key] = IF OnlyKeyIsCurrent(subject.own[key])
                                THEN "observable.ref" ELSE "observable"

\* The instance the run's classifier was given.
Target ==
    IF classified = "view" THEN WithBaseFields(subject) ELSE Wrapped(subject)

\* The prototype levels the run's classifier has walked.
Walked ==
    IF classified = "view"
    THEN SubSeq(Prototypes(Target, ViewPrototype), 1,
                LastVisited(Target, ViewPrototype))
    ELSE SubSeq(Prototypes(Target, BehaviorPrototype), 1,
                LastVisited(Target, BehaviorPrototype))

\* The annotation map of the run's classifier after `depth` levels.
AnnotationsAt(depth) ==
    IF classified = "view"
    THEN ViewAnnotations(Target, TRUE, depth)
    ELSE BehaviorAnnotations(Target, depth)

\* The exclusion set of the run's classifier.
ExcludesOf == IF classified = "view" THEN BASE_EXCLUDES ELSE BEHAVIOR_EXCLUDES

\* Position of the closest level defining key as a getter or a method.
ClosestAccessorOrMethod(key) ==
    LET ks == { k \in DOMAIN Walked :
                  /\ key \in DOMAIN Walked[k]
                  /\ Walked[k][key] \in {"getter", "method"} }
    IN  IF ks = {} THEN 0 ELSE CHOOSE k \in ks : \A j \in ks : k <= j

\* C18: a name classified at the instance level or at a prototype level
\* keeps its classification at every level further up; and a name that
\* the instance level left unclassified and that some level defines as a
\* getter or a method ends up with the kind of the closest such level:
\* computed for a getter, a (bound) action for a method.
FirstWins ==
    classified # "none"
    => /\ \A d \in 0..(Len(Walked) - 1) :
             \A key \in DOMAIN AnnotationsAt(d) :
                /\ key \in DOMAIN AnnotationsAt(d + 1)
                /\ AnnotationsAt(d + 1)[key] = AnnotationsAt(d)[key]
       /\ annotations = AnnotationsAt(Len(Walked))
       /\ \A key \in MemberNames \ ExcludesOf :
             (key \notin DOMAIN AnnotationsAt(0) /\ ClosestAccessorOrMethod(key) # 0)
             => /\ key \in DOMAIN annotations
                /\ annotations[key] =
                      IF Walked[ClosestAccessorOrMethod(key)][key] = "getter"
                      THEN "computed" ELSE "action.bound"

\* C20: the annotation map built for a View has no key of the base
\* exclusion set, and the one built for a Behavior none of the Behavior
\* exclusion set, wherever the instance or its classes declare such a name.
ExcludedNamesNeverAnnotated ==
    /\ classified = "view" => DOMAIN annotations \cap BASE_EXCLUDES = {}
    /\ classified = "behavior" => DOMAIN annotations \cap BEHAVIOR_EXCLUDES = {}

\* A View that redeclares onMount as a field and as a getter of its class,
\* next to a field that was annotated.
ExcludedNameRedeclared ==
    /\ classified = "view"
    /\ "onMount" \in DOMAIN subject.own
    /\ TypeOf(subject.own["onMount"]) # "function"
    /\ Len(subject.chain) >= 1
    /\ "onMount" \in DOMAIN subject.chain[1]
    /\ subject.chain[1]["onMount"] = "getter"
    /\ "count" \in DOMAIN annotations

\* The Behavior instances in the list of View v.
InstancesOf(v) == { views[v]._behaviors[k].instance : k \in DOMAIN views[v]._behaviors }

\* C19: no two View instances, live or unmounted, share a props box, so
\* each one reads the payload of its own latest render pass; no Behavior
\* instance is in the lists of two Views, nor twice in one list, and none
\* is a View or a box.
NothingShared ==
    /\ \A v, w \in DOMAIN views :
          v # w => /\ views[v].vm # views[w].vm
                   /\ views[v]._propsBox # views[w]._propsBox
                   /\ InstancesOf(v) \cap InstancesOf(w) = {}
    /\ \A v \in DOMAIN views :
          /\ boxes[views[v]._propsBox] = inputs[views[v].renders].props
          /\ Cardinality(InstancesOf(v)) = Len(fields)
          /\ \A w \in DOMAIN views :
                /\ views[w].vm \notin InstancesOf(v)
                /\ views[w]._propsBox \notin InstancesOf(v)

\* Two live Views with Behaviors, one of them rendered again.
TwoLiveViews ==
    \E v, w \in DOMAIN views :
        /\ v # w
        /\ views[v].live /\ views[w].live
        /\ views[v].renders = 2 /\ views[w].renders = 1
        /\ Len(views[v]._behaviors) >= 1

\* The names defined by the instance itself or by one of the user's classes.
UserDefined ==
    DOMAIN Target.own
    \cup UNION { DOMAIN subject.chain[k] : k \in DOMAIN subject.chain }

\* C21: every key of the annotation map is an own member of the instance
\* or a member of one of the user's prototype levels; no name that only the
\* base prototype or a prototype above the user's classes defines is
\* classified, whatever class was given to createView or createBehavior.
WalkStopsBelowBase ==
    classified # "none" => DOMAIN annotations \subseteq UserDefined

\* C22: when a cleanup closure stored for a Behavior (for its layout-mount
\* or its mount phase) has thrown during the teardown, the reporter has
\* received nothing, the exception has left the View's teardown and reached
\* the host, the onUnmount hook of that Behavior has not run, and no
\* teardown step of a Behavior registered after it has run.
CleanupErrorPropagates ==
    \A i \in Idx :
        ( /\ log[i].who \in Behaviors
          /\ log[i].what \in Closures
          /\ fault = [who |-> log[i].who, what |-> log[i].what] )
        => /\ reports = <<>>
           /\ escaped >= 1
           /\ ~Has(log[i].who, "onUnmount")
           /\ \A b \in Behaviors :
                 b > log[i].who => \A step \in Teardown : ~Has(b, step)

\* The mount cleanup of the first of two Behaviors has thrown at unmount;
\* both define onUnmount and the second one had a cleanup stored too.
CleanupThrewAtUnmount ==
    /\ host = "unmounted"
    /\ Len(fields) = 2
    /\ fault = [who |-> 1, what |-> "cleanup"]
    /\ Has(1, "cleanup")
    /\ Defines(ClassOf(1), "onUnmount")
    /\ Defines(ClassOf(2), "onUnmount")
    /\ \E h \in Idx : log[h].who = 2 /\ ReturnedCleanup(h)

\* The hook name the mount phase of a Behavior of class cls is to trigger.
MountTrigger(cls) == IF Defines(cls, "onMount") THEN "onMount" ELSE "mount"

\* C23: a mountBehavior call on the entry of a Behavior that defines
\* onMount or the alias mount invokes exactly one hook, onMount when it is
\* defined and the alias otherwise, and, when that hook returns, what it
\* returned is the entry's mount cleanup afterwards.
MountTriggersOneHook ==
    [][ \A k \in DOMAIN _behaviors :
          LET cls == ClassOf(_behaviors[k].instance)
          IN  ( /\ MountCall(k)
                /\ Defines(cls, "onMount") \/ Defines(cls, "mount") )
              => /\ Len(log') = Len(log) + 1
                 /\ log'[Len(log')].who = _behaviors[k].instance
                 /\ log'[Len(log')].what = MountTrigger(cls)
                 /\ fault.what # MountTrigger(cls)
                      => /\ _behaviors'[k].cleanup = log'[Len(log')].id
                         /\ Returns(cls, MountTrigger(cls))
                              => _behaviors'[k].cleanup # 0 ]_vars

\* C24: every onCreate call of an attached Behavior comes after the
\* construction of its View has begun and before the View's props box is
\* installed and before the View's own onCreate: while it runs the View
\* has no props to read.
BehaviorCreatedDuringConstruction ==
    \A i \in Idx :
        (log[i].who \in Behaviors /\ log[i].what = "onCreate")
        => /\ \E j \in Idx : /\ j < i
                              /\ log[j].who = 0
                              /\ log[j].what = "construct"
           /\ \A j \in Idx :
                 (log[j].who = 0 /\ log[j].what \in {"propsBox", "onCreate"})
                 => i < j

\* A View with onCreate and two Behaviors with onCreate, all created.
BehaviorsAndViewCreated ==
    /\ Len(fields) = 2
    /\ \A b \in Behaviors : Has(b, "onCreate")
    /\ Has(0, "propsBox")
    /\ Has(0, "onCreate")
    /\ props = inputs[1].props

====
